---- MODULE Spec2Model ----
(***************************************************************************)
(* Model of the ER (encode/rebuild) dispatch core, src/src/er.c.           *)
(*                                                                         *)
(* The world communicator holds ranks 0..NRanks-1.  comm_store partitions  *)
(* them into storage groups; the rank with storage rank 0 (the lowest      *)
(* world rank of the group) is the group's leader and the only rank that   *)
(* touches the group's state file "<name>.er.er".  Every rank runs the     *)
(* same sequence of ER_Dispatch calls on one set name; crashes kill the    *)
(* whole job and leave the files on disk.                                  *)
(*                                                                         *)
(* redset_* and shuffile_* are external libraries.  They are modelled by   *)
(* their contract only: a call on a communicator completes once every rank *)
(* has entered it and returns the same success/failure value on all ranks; *)
(* redset_unapply and redset_delete take no communicator and are local.    *)
(* kvtree_write_file and unlink are taken to succeed.                      *)
(*                                                                         *)
(* The API calls of one process (ER_Init .. ER_Free) act on the two        *)
(* registries er_schemes and er_sets and the two id counters.  They are    *)
(* checked in a specification of their own, SpecReg, in which ER_Dispatch  *)
(* is the lookups of er.c:521-616 and the choice of the pipeline; the      *)
(* pipelines themselves run in Spec, SpecRead and SpecLive.  kvtree is an  *)
(* external library: a tree is a map from keys to subtrees, its functions  *)
(* accept a NULL tree, and kvtree_delete leaves the pointer NULL.          *)
(***************************************************************************)
EXTENDS Integers, Sequences, FiniteSets, TLC

\* ---------------------------------------------------------------- bounds
NRanks == 3
MaxDispatch == 2
MaxCrash == 1
MaxCalls == 5
MaxIdArg == 2
MaxBlocks == 2

\* ------------------------------------------------------- program constants
ER_SUCCESS == 0
ER_FAILURE == 1
ER_DIRECTION_ENCODE == 1
ER_DIRECTION_REBUILD == 2
ER_DIRECTION_REMOVE == 3
ER_STATE_NULL == 0
ER_STATE_CORRUPT == 1
ER_STATE_ENCODED == 2
\* no state file on disk (kvtree_read_file finds nothing to read)
ABSENT == -1

Ranks == 0 .. (NRanks - 1)
FileValues == {ABSENT, ER_STATE_NULL, ER_STATE_CORRUPT, ER_STATE_ENCODED}
Directions == {ER_DIRECTION_ENCODE, ER_DIRECTION_REBUILD, ER_DIRECTION_REMOVE}

\* collaborator calls made by the pipelines
Calls == {"apply", "create", "migrate", "recover", "remove", "unapply", "delete"}
NoTrace == [c \in Calls |-> "none"]
NoPrev == [dir |-> 0, ret |-> ER_FAILURE, pdir |-> 0, pret |-> ER_FAILURE]

VARIABLES
  store,        \* store[r]: world rank of the leader of r's storage group
  file,         \* file[g]: content of the state file of the group led by g
  ops,          \* the dispatches the job has issued so far, in order
  idx,          \* idx[r]: number of dispatches rank r has returned from
  pc,           \* pc[r]: the statement of the pipeline rank r is at
  sub,          \* sub[r]: position inside the call at pc[r]
  state,        \* local variable state of er_state_read / er_rebuild
  valid_rank,   \* local variable of er_state_read
  lowest_rank,  \* local variable of er_state_read
  rc,           \* local variable rc of ER_Dispatch / er_encode / er_rebuild
  bcount,       \* bcount[r]: collectives on comm_world rank r has entered
  cdone,        \* number of collectives on comm_world that have completed
  cres,         \* results of the last two collectives (slot = number % 2)
  trace,        \* trace[r][c]: outcome of collaborator call c in r's dispatch
  fileops,      \* fileops[r]: state-file writes and unlinks in r's dispatch
  prev,         \* prev[r]: direction and result of r's last two dispatches
  written,      \* written[g]: values written to file[g] since the job started
  wret,         \* wret[r]: states of the er_state_write calls r returned from
  crashes,      \* number of job crashes so far
  crashWin      \* the last crash fell between a CORRUPT and an ENCODED write

pipevars == <<store, file, ops, idx, pc, sub, state, valid_rank, lowest_rank, rc,
              bcount, cdone, cres, trace, fileops, prev, written, wret, crashes,
              crashWin>>

\* the process-wide registries of er.c:28-32 and what the API calls returned
VARIABLES
  er_scheme_counter,  \* static int er_scheme_counter
  er_set_counter,     \* static int er_set_counter
  er_schemes,         \* static kvtree* er_schemes
  er_sets,            \* static kvtree* er_sets
  descs,              \* codec descriptors created and not yet deleted
  last,               \* the last API call: arguments, result, what it handed on
  pre,                \* registries, counters and descriptors before that call
  scheme_ids,         \* ids returned by successful ER_Create_Scheme calls
  set_ids,            \* ids returned by successful ER_Create calls
  added,              \* added[id]: paths of the successful ER_Add calls on set id
  owed,               \* handles live at a failed ER_Finalize and not freed since
  ncalls              \* number of API calls made

regvars == <<er_scheme_counter, er_set_counter, er_schemes, er_sets, descs, last,
             pre, scheme_ids, set_ids, added, owed, ncalls>>

vars == <<pipevars, regvars>>

\* ------------------------------------------------------------ storage groups
\* rank_store == 0 (er.c:58, 85, 513)
IsLeader(r) == store[r] = r
Leaders == {r \in Ranks : IsLeader(r)}
\* comm_store splits comm_world; the leader is the lowest world rank of a group
Partitions ==
  {s \in [Ranks -> Ranks] : \A r \in Ranks : s[r] <= r /\ s[s[r]] = s[r]}

\* ----------------------------------------------------------------- helpers
SetMin(S) == CHOOSE x \in S : \A y \in S : x <= y

IsPrefix(s, t) == Len(s) <= Len(t) /\ \A i \in 1 .. Len(s) : s[i] = t[i]

\* kvtree_read_file + kvtree_util_get_int: *state keeps its initial NULL
\* when the file is missing
KvReadState(f) == IF f = ABSENT THEN ER_STATE_NULL ELSE f

\* variant: every rank counts as holding a value
Eligible_always(st) == TRUE

\* er.c:112  if (*state != ER_STATE_NULL)
Eligible(st) == st # ER_STATE_NULL

\* variants: the state check is missing / tests for NULL only
RebuildRefuses_never(st) == FALSE
RebuildRefuses_onlyNull(st) == st = ER_STATE_NULL

\* er.c:433  if (state != ER_STATE_ENCODED) return ER_FAILURE
RebuildRefuses(st) == st # ER_STATE_ENCODED

\* a collective on comm_world numbered k has completed
CollectiveDone(k) == cdone >= k

\* variant: the barrier of er_state_write spans comm_store, not comm_world
WriteBarrierDone_store(r) ==
  \A q \in Ranks : store[q] = store[r] => bcount[q] >= bcount[r]

\* er.c:71  MPI_Barrier(comm_world) has let rank r go
WriteBarrierDone(r) == CollectiveDone(bcount[r])

\* rank r is the last rank of comm_world to enter its next collective
LastToEnter(r) == \A q \in Ranks \ {r} : bcount[q] >= bcount[r] + 1

CurOp(r) == ops[idx[r] + 1]
CurDir(r) == CurOp(r).dir


\* ------------------------------------------------------ pipeline statements
\* the five er_state_write call sites: er.c:381, 420, 451, 469, 500
WriteSites == {"en_corrupt", "en_encoded", "rb_corrupt", "rb_encoded", "rm_corrupt"}

\* variant: the first write of a pipeline passes ENCODED
WrittenState_encoded(site) == ER_STATE_ENCODED

\* variant: the final write passes CORRUPT as well
WrittenState_corrupt(site) == ER_STATE_CORRUPT

\* the state each call site passes to er_state_write
WrittenState(site) ==
  IF site \in {"en_encoded", "rb_encoded"} THEN ER_STATE_ENCODED ELSE ER_STATE_CORRUPT

\* the statement that follows each er_state_write call
AfterWrite(site) ==
  CASE site = "en_corrupt" -> "en_apply"
    [] site = "rb_corrupt" -> "rb_migrate"
    [] site = "rm_corrupt" -> "rm_remove"
    [] OTHER -> "ret"

\* variant: the result of redset_apply is not tested
ResultChecked_noApply(site) == site \in {"en_create", "rb_recover"}

\* variant: the result of shuffile_create is not tested
ResultChecked_noCreate(site) == site \in {"en_apply", "rb_recover"}

\* collaborator calls whose return value the pipeline tests:
\* redset_apply (er.c:384), shuffile_create (er.c:409), redset_recover in
\* er_rebuild (er.c:462).  shuffile_migrate (er.c:456) and every call of
\* er_remove (er.c:503-510) are made without looking at the result.
ResultChecked(site) == site \in {"en_apply", "en_create", "rb_recover"}

\* er.c:419 and er.c:468  if (rc == ER_SUCCESS) er_state_write(.., ENCODED)
WritesEncoded(rcv) == rcv = ER_SUCCESS

\* the statement that follows each collaborator call, given rc after it
AfterCall(site, rcv) ==
  CASE site = "en_apply" -> "en_create"
    [] site = "en_create" -> IF WritesEncoded(rcv) THEN "en_encoded" ELSE "ret"
    [] site = "rb_migrate" -> "rb_recover"
    [] site = "rb_recover" -> IF WritesEncoded(rcv) THEN "rb_encoded" ELSE "ret"
    [] site = "rm_remove" -> "rm_recover"
    [] site = "rm_recover" -> "rm_unapply"
    [] site = "rm_unapply" -> "rm_delete"
    [] OTHER -> "rm_unlink"

\* the sets a dispatch may be given: a direction and, for ENCODE, whether the
\* bound scheme resolves
OpChoices ==
  {[dir |-> d, scheme |-> s] : d \in Directions, s \in BOOLEAN} \
  {[dir |-> d, scheme |-> FALSE] : d \in {ER_DIRECTION_REBUILD, ER_DIRECTION_REMOVE}}

\* ------------------------------------------------------------- registries
\* codec variants, redset's REDSET_COPY_* (er.c:196-206)
REDSET_COPY_NULL == "NULL"
REDSET_COPY_SINGLE == "SINGLE"
REDSET_COPY_PARTNER == "PARTNER"
REDSET_COPY_XOR == "XOR"

\* arguments the caller may pass
BlockRange == (0 - MaxBlocks) .. MaxBlocks
IdArgs == 1 .. MaxIdArg
AllIds == 1 .. MaxCalls
NameArgs == {"", "ckpt"}
DirectionArgs == {0} \cup Directions
PathArgs == {"", "a", "b"}

\* a kvtree pointer: NULL, or a map from ids to records.  kvtree_get and
\* kvtree_size accept NULL (nothing found, size 0); kvtree_set_* on NULL
\* records nothing.
KvNull == [alloc |-> FALSE, kv |-> <<>>]
KvNew == [alloc |-> TRUE, kv |-> <<>>]
KvHas(reg, id) == reg.alloc /\ id \in DOMAIN reg.kv
KvSize(reg) == Cardinality(DOMAIN reg.kv)
KvSet(reg, id, v) ==
  IF reg.alloc
    THEN [reg EXCEPT !.kv = [i \in DOMAIN reg.kv \cup {id} |->
                               IF i = id THEN v ELSE reg.kv[i]]]
    ELSE reg
KvUnset(reg, id) == [reg EXCEPT !.kv = [i \in DOMAIN reg.kv \ {id} |-> reg.kv[i]]]

\* er.c:196-210: the codec variant for (encoding_blocks, erasure_blocks);
\* REDSET_COPY_NULL stands for the two early returns
EncodingType(D, E) ==
  IF D < 1 THEN REDSET_COPY_NULL
  ELSE IF E = 0 THEN REDSET_COPY_SINGLE
  ELSE IF D = E THEN REDSET_COPY_PARTNER
  ELSE IF E = 1 THEN REDSET_COPY_XOR
  ELSE REDSET_COPY_NULL

\* variant: the new id is the number of live schemes plus one
NewSchemeId_reuse == KvSize(er_schemes) + 1

\* er.c:218  er_scheme_counter++
NewSchemeId == er_scheme_counter + 1

\* er.c:292  er_set_counter++
NewSetId == er_set_counter + 1

\* variant: a failed ER_Create leaves its entry in er_sets
CreateKeeps_always(rcv) == TRUE

\* er.c:327  the new entry stays in er_sets only if rc is ER_SUCCESS
CreateKeeps(rcv) == rcv = ER_SUCCESS

\* variant: ER_Add records nothing
AddKey_none(files, path) == files

\* er.c:351  kvtree_set_kv(set, "FILE", file): the path is a key under FILE
AddKey(files, path) == files \cup {path}

\* variant: er_encode is called without looking at the scheme lookup
EntersEncode_unchecked(rcv, found) == rcv = ER_SUCCESS

\* er.c:584, 592: er_encode runs when the scheme is found and rc is ER_SUCCESS
EntersEncode(rcv, found) == found /\ rcv = ER_SUCCESS

Snapshot ==
  [schemes |-> er_schemes, sets |-> er_sets,
   scheme_counter |-> er_scheme_counter, set_counter |-> er_set_counter,
   descs |-> descs]

NoCall ==
  [op |-> "none", id |-> 0, D |-> 0, E |-> 0, name |-> "", dir |-> 0, path |-> "",
   ret |-> ER_SUCCESS, lib |-> TRUE, entered |-> "none", num_files |-> 0,
   files |-> {}, owed |-> FALSE]

NoOwed == [open |-> FALSE, h |-> {}]

\* handles held by the registries
LiveHandles ==
  {<<"scheme", i>> : i \in DOMAIN er_schemes.kv} \cup
  {<<"set", i>> : i \in DOMAIN er_sets.kv}

\* a process that has called ER_Init (er.c:134-135) and nothing else
RegInit ==
  /\ er_scheme_counter = 0
  /\ er_set_counter = 0
  /\ er_schemes = KvNew
  /\ er_sets = KvNew
  /\ descs = 0
  /\ last = NoCall
  /\ pre = [schemes |-> KvNew, sets |-> KvNew, scheme_counter |-> 0,
            set_counter |-> 0, descs |-> 0]
  /\ scheme_ids = <<>>
  /\ set_ids = <<>>
  /\ added = [i \in AllIds |-> <<>>]
  /\ owed = NoOwed
  /\ ncalls = 0

\* ---------------------------------------------------------------- Init
InitCommon ==
  /\ store \in Partitions
  /\ file \in {f \in [Ranks -> FileValues] :
                 \A r \in Ranks : store[r] # r => f[r] = ABSENT}
  /\ state = [r \in Ranks |-> ER_STATE_NULL]
  /\ valid_rank = [r \in Ranks |-> NRanks]
  /\ lowest_rank = [r \in Ranks |-> NRanks]
  /\ rc = [r \in Ranks |-> ER_SUCCESS]
  /\ bcount = [r \in Ranks |-> 0]
  /\ cdone = 0
  /\ cres = [i \in 0 .. 1 |-> 0]
  /\ trace = [r \in Ranks |-> NoTrace]
  /\ fileops = [r \in Ranks |-> 0]
  /\ prev = [r \in Ranks |-> NoPrev]
  /\ written = [r \in Ranks |-> <<>>]
  /\ wret = [r \in Ranks |-> <<>>]
  /\ crashes = 0
  /\ crashWin = FALSE
  /\ idx = [r \in Ranks |-> 0]
  /\ sub = [r \in Ranks |-> "call"]
  /\ RegInit

\* a job that has called ER_Init and is about to dispatch; the disk holds
\* whatever earlier jobs left behind
Init ==
  /\ InitCommon
  /\ ops = <<>>
  /\ pc = [r \in Ranks |-> "idle"]

\* every rank is entering er_state_read (the first statement of er_rebuild)
InitRead ==
  /\ InitCommon
  /\ ops = <<[dir |-> ER_DIRECTION_REBUILD, scheme |-> TRUE]>>
  /\ pc = [r \in Ranks |-> "rb_read"]

\* ------------------------------------------------------------- ER_Dispatch
\* er.c:521-609.  All ranks dispatch the same sets in the same order: the
\* first rank to reach a dispatch picks the set, the others follow ops.
\* op.scheme tells whether the scheme bound to an ENCODE set is still in
\* er_schemes (er.c:583); when it is not, ER_Dispatch fails before er_encode.
ER_Dispatch(r) ==
  /\ pc[r] = "idle"
  /\ idx[r] < MaxDispatch
  /\ \E op \in OpChoices :
       /\ IF idx[r] < Len(ops)
            THEN op = ops[idx[r] + 1] /\ ops' = ops
            ELSE ops' = Append(ops, op)
       /\ pc' = [pc EXCEPT ![r] =
                   CASE op.dir = ER_DIRECTION_ENCODE ->
                          IF EntersEncode(ER_SUCCESS, op.scheme) THEN "en_corrupt" ELSE "ret"
                     [] op.dir = ER_DIRECTION_REBUILD -> "rb_read"
                     [] OTHER -> "rm_corrupt"]
       /\ rc' = [rc EXCEPT ![r] =
                   IF op.dir = ER_DIRECTION_ENCODE /\ ~EntersEncode(ER_SUCCESS, op.scheme)
                     THEN ER_FAILURE ELSE ER_SUCCESS]
  /\ trace' = [trace EXCEPT ![r] = NoTrace]
  /\ fileops' = [fileops EXCEPT ![r] = 0]
  /\ state' = [state EXCEPT ![r] = ER_STATE_NULL]
  /\ UNCHANGED <<store, file, idx, sub, valid_rank, lowest_rank, bcount, cdone,
                 cres, prev, written, wret, crashes, crashWin>>
  /\ UNCHANGED regvars

ER_Dispatch_return(r) ==
  /\ pc[r] = "ret"
  /\ prev' = [prev EXCEPT ![r] = [dir |-> CurDir(r), ret |-> rc[r],
                                  pdir |-> prev[r].dir, pret |-> prev[r].ret]]
  /\ idx' = [idx EXCEPT ![r] = @ + 1]
  /\ pc' = [pc EXCEPT ![r] = "idle"]
  /\ UNCHANGED <<store, file, ops, sub, state, valid_rank, lowest_rank, rc,
                 bcount, cdone, cres, trace, fileops, written, wret, crashes,
                 crashWin>>
  /\ UNCHANGED regvars

\* ---------------------------------------------------------- er_state_write
\* variant: every rank of the group writes the file
WritesFile_all(r) == TRUE

\* er.c:58  if (rank_store == 0)
WritesFile(r) == IsLeader(r)

\* the leader writes STATE to the file, then the rank enters MPI_Barrier
er_state_write(r) ==
  /\ pc[r] \in WriteSites
  /\ sub[r] = "call"
  /\ IF WritesFile(r)
       THEN /\ file' = [file EXCEPT ![store[r]] = WrittenState(pc[r])]
            /\ written' = [written EXCEPT ![store[r]] = Append(@, WrittenState(pc[r]))]
            /\ fileops' = [fileops EXCEPT ![r] = @ + 1]
            /\ crashWin' = FALSE
       ELSE UNCHANGED <<file, written, fileops, crashWin>>
  /\ bcount' = [bcount EXCEPT ![r] = @ + 1]
  /\ cdone' = IF LastToEnter(r) THEN bcount[r] + 1 ELSE cdone
  /\ sub' = [sub EXCEPT ![r] = "wait"]
  /\ UNCHANGED <<store, ops, idx, pc, state, valid_rank, lowest_rank, rc, cres,
                 trace, prev, wret, crashes>>
  /\ UNCHANGED regvars

\* the rank leaves MPI_Barrier and er_state_write returns
er_state_write_return(r) ==
  /\ pc[r] \in WriteSites
  /\ sub[r] = "wait"
  /\ WriteBarrierDone(r)
  /\ wret' = [wret EXCEPT ![r] = Append(@, WrittenState(pc[r]))]
  /\ pc' = [pc EXCEPT ![r] = AfterWrite(pc[r])]
  /\ sub' = [sub EXCEPT ![r] = "call"]
  /\ UNCHANGED <<store, file, ops, idx, state, valid_rank, lowest_rank, rc,
                 bcount, cdone, cres, trace, fileops, prev, written, crashes,
                 crashWin>>
  /\ UNCHANGED regvars

\* ----------------------------------------------------------- er_state_read
\* er.c:79-118: read the file (leader only), pick valid_rank, enter Allreduce
er_state_read(r) ==
  /\ pc[r] = "rb_read"
  /\ sub[r] = "call"
  /\ LET st == IF IsLeader(r) THEN KvReadState(file[r]) ELSE ER_STATE_NULL
         vr == IF Eligible(st) THEN r ELSE NRanks
         all == [valid_rank EXCEPT ![r] = vr]
     IN /\ state' = [state EXCEPT ![r] = st]
        /\ valid_rank' = all
        /\ IF LastToEnter(r)
             THEN /\ cdone' = bcount[r] + 1
                  /\ cres' = [cres EXCEPT ![(bcount[r] + 1) % 2] =
                                SetMin({all[q] : q \in Ranks})]
             ELSE UNCHANGED <<cdone, cres>>
  /\ bcount' = [bcount EXCEPT ![r] = @ + 1]
  /\ sub' = [sub EXCEPT ![r] = "reduce"]
  /\ UNCHANGED <<store, file, ops, idx, pc, lowest_rank, rc, trace, fileops,
                 prev, written, wret, crashes, crashWin>>
  /\ UNCHANGED regvars

\* er.c:118-124: Allreduce returns lowest_rank; enter MPI_Bcast if some rank
\* holds a value.  The root hands over its value and returns at once.
er_state_read_reduce(r) ==
  /\ pc[r] = "rb_read"
  /\ sub[r] = "reduce"
  /\ CollectiveDone(bcount[r])
  /\ LET low == cres[bcount[r] % 2]
     IN /\ lowest_rank' = [lowest_rank EXCEPT ![r] = low]
        /\ IF low < NRanks
             THEN /\ bcount' = [bcount EXCEPT ![r] = @ + 1]
                  /\ IF low = r
                       THEN /\ cdone' = bcount[r] + 1
                            /\ cres' = [cres EXCEPT ![(bcount[r] + 1) % 2] = state[r]]
                            /\ sub' = [sub EXCEPT ![r] = "done"]
                       ELSE /\ UNCHANGED <<cdone, cres>>
                            /\ sub' = [sub EXCEPT ![r] = "bcast"]
             ELSE /\ UNCHANGED <<bcount, cdone, cres>>
                  /\ sub' = [sub EXCEPT ![r] = "done"]
  /\ UNCHANGED <<store, file, ops, idx, pc, state, valid_rank, rc, trace,
                 fileops, prev, written, wret, crashes, crashWin>>
  /\ UNCHANGED regvars

\* variant: the broadcast leaves the local value of a non-root rank in place
Received_own(r) == state[r]

\* er.c:123  MPI_Bcast(state, 1, MPI_INT, lowest_rank, comm_world) on a
\* non-root rank: *state becomes the root's value
Received(r) == cres[bcount[r] % 2]

\* er.c:123: a non-root rank receives the root's value
er_state_read_bcast(r) ==
  /\ pc[r] = "rb_read"
  /\ sub[r] = "bcast"
  /\ CollectiveDone(bcount[r])
  /\ state' = [state EXCEPT ![r] = Received(r)]
  /\ sub' = [sub EXCEPT ![r] = "done"]
  /\ UNCHANGED <<store, file, ops, idx, pc, valid_rank, lowest_rank, rc, bcount,
                 cdone, cres, trace, fileops, prev, written, wret, crashes,
                 crashWin>>
  /\ UNCHANGED regvars


\* -------------------------------------------------------------- er_rebuild
\* er.c:433-436: refuse to rebuild unless the reconciled state is ENCODED
er_rebuild_check(r) ==
  /\ pc[r] = "rb_read"
  /\ sub[r] = "done"
  /\ IF RebuildRefuses(state[r])
       THEN /\ rc' = [rc EXCEPT ![r] = ER_FAILURE]
            /\ pc' = [pc EXCEPT ![r] = "ret"]
       ELSE /\ rc' = rc
            /\ pc' = [pc EXCEPT ![r] = "rb_corrupt"]
  /\ sub' = [sub EXCEPT ![r] = "call"]
  /\ UNCHANGED <<store, file, ops, idx, state, valid_rank, lowest_rank, bcount,
                 cdone, cres, trace, fileops, prev, written, wret, crashes,
                 crashWin>>
  /\ UNCHANGED regvars

\* ------------------------------------------------------- collaborator calls
\* a rank enters a collective collaborator call; the call completes, with one
\* result for all ranks, when the last rank of comm_world has entered it
CollEnter(r, site) ==
  /\ pc[r] = site
  /\ sub[r] = "call"
  /\ bcount' = [bcount EXCEPT ![r] = @ + 1]
  /\ IF LastToEnter(r)
       THEN /\ cdone' = bcount[r] + 1
            /\ \E res \in {ER_SUCCESS, ER_FAILURE} :
                 cres' = [cres EXCEPT ![(bcount[r] + 1) % 2] = res]
       ELSE UNCHANGED <<cdone, cres>>
  /\ sub' = [sub EXCEPT ![r] = "wait"]
  /\ UNCHANGED <<store, file, ops, idx, pc, state, valid_rank, lowest_rank, rc,
                 trace, fileops, prev, written, wret, crashes, crashWin>>
  /\ UNCHANGED regvars

\* the collective call returns on rank r; rc is set as the call site does
CollReturn(r, site, call) ==
  /\ pc[r] = site
  /\ sub[r] = "wait"
  /\ CollectiveDone(bcount[r])
  /\ LET res == cres[bcount[r] % 2]
         rcv == IF ResultChecked(site) /\ res # ER_SUCCESS THEN ER_FAILURE ELSE rc[r]
     IN /\ rc' = [rc EXCEPT ![r] = rcv]
        /\ trace' = [trace EXCEPT ![r][call] = IF res = ER_SUCCESS THEN "ok" ELSE "fail"]
        /\ pc' = [pc EXCEPT ![r] = AfterCall(site, rcv)]
  /\ sub' = [sub EXCEPT ![r] = "call"]
  /\ UNCHANGED <<store, file, ops, idx, state, valid_rank, lowest_rank, bcount,
                 cdone, cres, fileops, prev, written, wret, crashes, crashWin>>
  /\ UNCHANGED regvars

\* a local collaborator call (no communicator): started, then finished with
\* a result of its own on each rank.  No call site of a local call reads the
\* result, so the trace records only that the call was made.
LocalEnter(r, site) ==
  /\ pc[r] = site
  /\ sub[r] = "call"
  /\ sub' = [sub EXCEPT ![r] = "wait"]
  /\ UNCHANGED <<store, file, ops, idx, pc, state, valid_rank, lowest_rank, rc,
                 bcount, cdone, cres, trace, fileops, prev, written, wret,
                 crashes, crashWin>>
  /\ UNCHANGED regvars

LocalReturn(r, site, call) ==
  /\ pc[r] = site
  /\ sub[r] = "wait"
  /\ \E res \in {ER_SUCCESS, ER_FAILURE} :
       LET rcv == IF ResultChecked(site) /\ res # ER_SUCCESS THEN ER_FAILURE ELSE rc[r]
       IN /\ rc' = [rc EXCEPT ![r] = rcv]
          /\ pc' = [pc EXCEPT ![r] = AfterCall(site, rcv)]
  /\ trace' = [trace EXCEPT ![r][call] = "done"]
  /\ sub' = [sub EXCEPT ![r] = "call"]
  /\ UNCHANGED <<store, file, ops, idx, state, valid_rank, lowest_rank, bcount,
                 cdone, cres, fileops, prev, written, wret, crashes, crashWin>>
  /\ UNCHANGED regvars

\* er_encode, er.c:384 redset_apply and er.c:409 shuffile_create
er_encode_apply(r) == CollEnter(r, "en_apply") \/ CollReturn(r, "en_apply", "apply")
er_encode_create(r) == CollEnter(r, "en_create") \/ CollReturn(r, "en_create", "create")

\* er_rebuild, er.c:456 shuffile_migrate and er.c:462 redset_recover
er_rebuild_migrate(r) == CollEnter(r, "rb_migrate") \/ CollReturn(r, "rb_migrate", "migrate")
er_rebuild_recover(r) == CollEnter(r, "rb_recover") \/ CollReturn(r, "rb_recover", "recover")

\* er_remove, er.c:503 shuffile_remove, 508 redset_recover, 509 redset_unapply,
\* 510 redset_delete
er_remove_shuffile(r) == CollEnter(r, "rm_remove") \/ CollReturn(r, "rm_remove", "remove")
er_remove_recover(r) == CollEnter(r, "rm_recover") \/ CollReturn(r, "rm_recover", "recover")
er_remove_unapply(r) == LocalEnter(r, "rm_unapply") \/ LocalReturn(r, "rm_unapply", "unapply")
er_remove_delete(r) == LocalEnter(r, "rm_delete") \/ LocalReturn(r, "rm_delete", "delete")

\* variant: the test of rank_store is inverted
Unlinks_nonleader(r) == ~IsLeader(r)

\* er.c:513  if (rank_store == 0) unlink(er_file)
Unlinks(r) == IsLeader(r)

\* er.c:512-517: the leader unlinks the state file; er_remove returns rc
er_remove_unlink(r) ==
  /\ pc[r] = "rm_unlink"
  /\ IF Unlinks(r)
       THEN /\ file' = [file EXCEPT ![r] = ABSENT]
            /\ fileops' = [fileops EXCEPT ![r] = @ + 1]
            /\ crashWin' = FALSE
       ELSE UNCHANGED <<file, fileops, crashWin>>
  /\ pc' = [pc EXCEPT ![r] = "ret"]
  /\ UNCHANGED <<store, ops, idx, sub, state, valid_rank, lowest_rank, rc, bcount,
                 cdone, cres, trace, prev, written, wret, crashes>>
  /\ UNCHANGED regvars

\* ------------------------------------------------------------------ crash
\* rank r is between the return of the CORRUPT write and the start of its
\* ENCODED write in an ENCODE or REBUILD pipeline
InWindow(r) ==
  \/ pc[r] \in {"en_apply", "en_create", "rb_migrate", "rb_recover"}
  \/ pc[r] \in {"en_encoded", "rb_encoded"} /\ sub[r] = "call"

\* rank q has started the ENCODED write of dispatch number k
BegunEncoded(q, k) ==
  \/ /\ idx[q] = k - 1
     /\ \/ pc[q] \in {"en_encoded", "rb_encoded"} /\ sub[q] = "wait"
        \/ pc[q] = "ret" /\ rc[q] = ER_SUCCESS
  \/ idx[q] >= k /\ prev[q].ret = ER_SUCCESS

\* the whole job dies; the files stay; a new job starts with the same groups
Crash ==
  /\ crashes < MaxCrash
  /\ Len(ops) > 0
  /\ Len(ops) < MaxDispatch
  /\ crashes' = crashes + 1
  /\ crashWin' = \E r \in Ranks :
                   /\ InWindow(r)
                   /\ \A q \in Ranks : ~BegunEncoded(q, idx[r] + 1)
  /\ idx' = [r \in Ranks |-> Len(ops)]
  /\ pc' = [r \in Ranks |-> "idle"]
  /\ sub' = [r \in Ranks |-> "call"]
  /\ state' = [r \in Ranks |-> ER_STATE_NULL]
  /\ valid_rank' = [r \in Ranks |-> NRanks]
  /\ lowest_rank' = [r \in Ranks |-> NRanks]
  /\ rc' = [r \in Ranks |-> ER_SUCCESS]
  /\ bcount' = [r \in Ranks |-> 0]
  /\ cdone' = 0
  /\ cres' = [i \in 0 .. 1 |-> 0]
  /\ trace' = [r \in Ranks |-> NoTrace]
  /\ fileops' = [r \in Ranks |-> 0]
  /\ prev' = [r \in Ranks |-> NoPrev]
  /\ written' = [r \in Ranks |-> <<>>]
  /\ wret' = [r \in Ranks |-> <<>>]
  /\ UNCHANGED <<store, file, ops>>
  /\ UNCHANGED regvars

\* ------------------------------------------------------------- API calls
\* what every API call does to the history variables
Called ==
  /\ ncalls < MaxCalls
  /\ ncalls' = ncalls + 1
  /\ pre' = Snapshot
  /\ UNCHANGED pipevars

\* er.c:129-148
ER_Init ==
  /\ Called
  /\ er_schemes' = KvNew
  /\ er_sets' = KvNew
  /\ \E lib \in BOOLEAN :
       last' = [NoCall EXCEPT !.op = "ER_Init", !.lib = lib,
                              !.ret = IF lib THEN ER_SUCCESS ELSE ER_FAILURE]
  /\ owed' = NoOwed
  /\ UNCHANGED <<er_scheme_counter, er_set_counter, descs, scheme_ids, set_ids, added>>

\* er.c:150-185
ER_Finalize ==
  /\ Called
  /\ LET live == KvSize(er_schemes) > 0 \/ KvSize(er_sets) > 0
     IN /\ \E lib \in BOOLEAN :
             last' = [NoCall EXCEPT !.op = "ER_Finalize", !.lib = lib,
                                    !.owed = owed.open /\ owed.h = {},
                                    !.ret = IF live \/ ~lib THEN ER_FAILURE
                                            ELSE ER_SUCCESS]
        /\ owed' = IF live THEN [open |-> TRUE, h |-> LiveHandles] ELSE NoOwed
  /\ er_schemes' = KvNull
  /\ er_sets' = KvNull
  /\ UNCHANGED <<er_scheme_counter, er_set_counter, descs, scheme_ids, set_ids, added>>

\* er.c:187-237
ER_Create_Scheme(D, E) ==
  /\ Called
  /\ LET type == EncodingType(D, E)
         call == [NoCall EXCEPT !.op = "ER_Create_Scheme", !.D = D, !.E = E]
     IN IF type = REDSET_COPY_NULL
          THEN /\ last' = [call EXCEPT !.ret = ER_FAILURE]
               /\ UNCHANGED <<er_scheme_counter, er_schemes, descs, scheme_ids>>
          ELSE \E lib \in BOOLEAN :
                 IF lib
                   THEN /\ er_scheme_counter' = NewSchemeId
                        /\ er_schemes' = KvSet(er_schemes, NewSchemeId, [type |-> type])
                        /\ descs' = descs + 1
                        /\ scheme_ids' = Append(scheme_ids, NewSchemeId)
                        /\ last' = [call EXCEPT !.ret = NewSchemeId]
                   ELSE /\ last' = [call EXCEPT !.ret = -1, !.lib = FALSE]
                        /\ UNCHANGED <<er_scheme_counter, er_schemes, descs, scheme_ids>>
  /\ owed' = NoOwed
  /\ UNCHANGED <<er_set_counter, er_sets, set_ids, added>>

\* er.c:239-271
ER_Free_Scheme(id) ==
  /\ Called
  /\ LET call == [NoCall EXCEPT !.op = "ER_Free_Scheme", !.id = id,
                                !.owed = <<"scheme", id>> \in owed.h]
     IN IF KvHas(er_schemes, id)
          THEN /\ \E lib \in BOOLEAN :
                    last' = [call EXCEPT !.lib = lib,
                                         !.ret = IF lib THEN ER_SUCCESS ELSE ER_FAILURE]
               /\ er_schemes' = KvUnset(er_schemes, id)
               /\ descs' = descs - 1
          ELSE /\ last' = [call EXCEPT !.ret = ER_FAILURE]
               /\ UNCHANGED <<er_schemes, descs>>
  /\ owed' = [owed EXCEPT !.h = @ \ {<<"scheme", id>>}]
  /\ UNCHANGED <<er_scheme_counter, er_set_counter, er_sets, scheme_ids, set_ids, added>>

\* er.c:274-335
ER_Create(name, direction, scheme_id) ==
  /\ Called
  /\ LET call == [NoCall EXCEPT !.op = "ER_Create", !.name = name,
                                !.dir = direction, !.id = scheme_id]
     IN IF name = "" \/ direction \notin Directions
          THEN /\ last' = [call EXCEPT !.ret = ER_FAILURE]
               /\ UNCHANGED <<er_set_counter, er_sets, set_ids>>
          ELSE LET rcv == IF direction = ER_DIRECTION_ENCODE /\ ~KvHas(er_schemes, scheme_id)
                            THEN ER_FAILURE ELSE ER_SUCCESS
                   set == [name |-> name, direction |-> direction,
                           scheme |-> IF direction = ER_DIRECTION_ENCODE
                                        THEN scheme_id ELSE 0,
                           files |-> {}]
                   with == KvSet(er_sets, NewSetId, set)
               IN /\ er_set_counter' = NewSetId
                  /\ er_sets' = IF CreateKeeps(rcv) THEN with ELSE KvUnset(with, NewSetId)
                  /\ IF rcv = ER_SUCCESS
                       THEN /\ last' = [call EXCEPT !.ret = NewSetId]
                            /\ set_ids' = Append(set_ids, NewSetId)
                       ELSE /\ last' = [call EXCEPT !.ret = -1]
                            /\ set_ids' = set_ids
  /\ owed' = NoOwed
  /\ UNCHANGED <<er_scheme_counter, er_schemes, descs, scheme_ids, added>>

\* er.c:338-360
ER_Add(set_id, path) ==
  /\ Called
  /\ LET call == [NoCall EXCEPT !.op = "ER_Add", !.id = set_id, !.path = path]
     IN IF path # "" /\ KvHas(er_sets, set_id)
          THEN /\ er_sets' = [er_sets EXCEPT !.kv[set_id].files = AddKey(@, path)]
               /\ added' = [added EXCEPT ![set_id] = Append(@, path)]
               /\ last' = [call EXCEPT !.ret = ER_SUCCESS]
          ELSE /\ last' = [call EXCEPT !.ret = ER_FAILURE]
               /\ UNCHANGED <<er_sets, added>>
  /\ owed' = NoOwed
  /\ UNCHANGED <<er_scheme_counter, er_set_counter, er_schemes, descs, scheme_ids, set_ids>>

\* er.c:521-616, seen from one process: the lookups, the file list, and the
\* pipeline entered.  er_encode and er_rebuild return either result; er_remove
\* returns ER_SUCCESS (er.c:478, 517).
ER_Dispatch_call(set_id) ==
  /\ Called
  /\ LET call == [NoCall EXCEPT !.op = "ER_Dispatch", !.id = set_id]
     IN IF KvHas(er_sets, set_id)
          THEN LET set == er_sets.kv[set_id]
                   found == KvHas(er_schemes, set.scheme)
               IN CASE set.direction = ER_DIRECTION_ENCODE ->
                         LET given == [call EXCEPT !.dir = set.direction,
                                                   !.num_files = Cardinality(set.files),
                                                   !.files = set.files]
                         IN IF EntersEncode(ER_SUCCESS, found)
                              THEN \E res \in {ER_SUCCESS, ER_FAILURE} :
                                     last' = [given EXCEPT !.entered = "er_encode",
                                                           !.ret = res]
                              ELSE last' = [given EXCEPT !.ret = ER_FAILURE]
                    [] set.direction = ER_DIRECTION_REBUILD ->
                         \E res \in {ER_SUCCESS, ER_FAILURE} :
                           last' = [call EXCEPT !.dir = set.direction,
                                                !.entered = "er_rebuild", !.ret = res]
                    [] OTHER ->
                         last' = [call EXCEPT !.dir = set.direction,
                                              !.entered = "er_remove", !.ret = ER_SUCCESS]
          ELSE last' = [call EXCEPT !.ret = ER_FAILURE]
  /\ owed' = NoOwed
  /\ UNCHANGED <<er_scheme_counter, er_set_counter, er_schemes, er_sets, descs,
                 scheme_ids, set_ids, added>>

\* er.c:620-623
ER_Test(set_id) ==
  /\ Called
  /\ last' = [NoCall EXCEPT !.op = "ER_Test", !.id = set_id, !.ret = 1]
  /\ owed' = NoOwed
  /\ UNCHANGED <<er_scheme_counter, er_set_counter, er_schemes, er_sets, descs,
                 scheme_ids, set_ids, added>>

\* er.c:626-629
ER_Wait(set_id) ==
  /\ Called
  /\ last' = [NoCall EXCEPT !.op = "ER_Wait", !.id = set_id, !.ret = ER_SUCCESS]
  /\ owed' = NoOwed
  /\ UNCHANGED <<er_scheme_counter, er_set_counter, er_schemes, er_sets, descs,
                 scheme_ids, set_ids, added>>

\* er.c:632-648
ER_Free(set_id) ==
  /\ Called
  /\ last' = [NoCall EXCEPT !.op = "ER_Free", !.id = set_id, !.ret = ER_SUCCESS,
                            !.owed = <<"set", set_id>> \in owed.h]
  /\ er_sets' = KvUnset(er_sets, set_id)
  /\ owed' = [owed EXCEPT !.h = @ \ {<<"set", set_id>>}]
  /\ UNCHANGED <<er_scheme_counter, er_set_counter, er_schemes, descs, scheme_ids,
                 set_ids, added>>

\* ------------------------------------------------------------ specifications
\* one step of rank r in a pipeline
RankNext(r) ==
  \/ ER_Dispatch(r)
  \/ ER_Dispatch_return(r)
  \/ er_state_write(r)
  \/ er_state_write_return(r)
  \/ er_state_read(r)
  \/ er_state_read_reduce(r)
  \/ er_state_read_bcast(r)
  \/ er_rebuild_check(r)
  \/ er_encode_apply(r)
  \/ er_encode_create(r)
  \/ er_rebuild_migrate(r)
  \/ er_rebuild_recover(r)
  \/ er_remove_shuffile(r)
  \/ er_remove_recover(r)
  \/ er_remove_unapply(r)
  \/ er_remove_delete(r)
  \/ er_remove_unlink(r)

Next ==
  \/ \E r \in Ranks : RankNext(r)
  \/ Crash

Spec == Init /\ [][Next]_vars

\* er_state_read alone, from every content of the state files
NextRead ==
  \E r \in Ranks :
    \/ er_state_read(r)
    \/ er_state_read_reduce(r)
    \/ er_state_read_bcast(r)

SpecRead == InitRead /\ [][NextRead]_vars

\* a job that does not crash and in which every rank keeps running: each rank
\* is its own process, so a rank that can take a step eventually takes one;
\* this includes calling the next ER_Dispatch, which all ranks do
NextLive == \E r \in Ranks : RankNext(r)

SpecLive == Init /\ [][NextLive]_vars /\ \A r \in Ranks : WF_vars(RankNext(r))

\* the API calls of one process, the pipelines left out
InitReg ==
  /\ RegInit
  /\ store = [r \in Ranks |-> 0]
  /\ file = [r \in Ranks |-> ABSENT]
  /\ ops = <<>>
  /\ idx = [r \in Ranks |-> 0]
  /\ pc = [r \in Ranks |-> "idle"]
  /\ sub = [r \in Ranks |-> "call"]
  /\ state = [r \in Ranks |-> ER_STATE_NULL]
  /\ valid_rank = [r \in Ranks |-> NRanks]
  /\ lowest_rank = [r \in Ranks |-> NRanks]
  /\ rc = [r \in Ranks |-> ER_SUCCESS]
  /\ bcount = [r \in Ranks |-> 0]
  /\ cdone = 0
  /\ cres = [i \in 0 .. 1 |-> 0]
  /\ trace = [r \in Ranks |-> NoTrace]
  /\ fileops = [r \in Ranks |-> 0]
  /\ prev = [r \in Ranks |-> NoPrev]
  /\ written = [r \in Ranks |-> <<>>]
  /\ wret = [r \in Ranks |-> <<>>]
  /\ crashes = 0
  /\ crashWin = FALSE

NextReg ==
  \/ ER_Init
  \/ ER_Finalize
  \/ \E D, E \in BlockRange : ER_Create_Scheme(D, E)
  \/ \E id \in IdArgs : ER_Free_Scheme(id)
  \/ \E name \in NameArgs, d \in DirectionArgs, id \in IdArgs : ER_Create(name, d, id)
  \/ \E id \in IdArgs, path \in PathArgs : ER_Add(id, path)
  \/ \E id \in IdArgs : ER_Dispatch_call(id)
  \/ \E id \in IdArgs : ER_Test(id)
  \/ \E id \in IdArgs : ER_Wait(id)
  \/ \E id \in IdArgs : ER_Free(id)

SpecReg == InitReg /\ [][NextReg]_vars


\* ================================================================ properties
Last(q) == q[Len(q)]

CollSites == {"en_apply", "en_create", "rb_migrate", "rb_recover", "rm_remove", "rm_recover"}
LocalSites == {"rm_unapply", "rm_delete"}

\* rank r has entered a collaborator call that has not completed
Executing(r) ==
  /\ sub[r] = "wait"
  /\ \/ pc[r] \in CollSites /\ cdone < bcount[r]
     \/ pc[r] \in LocalSites

\* the value the state files reconcile to: the file of the lowest-ranked
\* leader that holds CORRUPT or ENCODED, NULL when there is none
Reconciled(f) ==
  LET holders == {g \in Leaders : f[g] \in {ER_STATE_CORRUPT, ER_STATE_ENCODED}}
  IN IF holders = {} THEN ER_STATE_NULL
     ELSE f[CHOOSE g \in holders : \A h \in holders : g <= h]

\* rank r is about to return from ER_Dispatch of direction d
Returning(r, d) == pc[r] = "ret" /\ CurDir(r) = d

\* no rank has started a dispatch later than the one rank r is in
NoLaterDispatch(r) ==
  \A q \in Ranks : idx[q] <= idx[r] \/ (idx[q] = idx[r] + 1 /\ pc[q] = "idle")

\* some rank is past the CORRUPT write of an ENCODE or REBUILD pipeline and no
\* rank has started that pipeline's ENCODED write
JobInWindow ==
  \E r \in Ranks : InWindow(r) /\ \A q \in Ranks : ~BegunEncoded(q, idx[r] + 1)

\* C1, first part: once a rank is past the CORRUPT write of ENCODE or REBUILD
\* (so it may start collaborator calls), every group's file holds CORRUPT
\* until the ENCODED write starts.
C1_CorruptBeforeCalls ==
  JobInWindow => \A g \in Leaders : file[g] = ER_STATE_CORRUPT

\* C1, second part: a rank starts the ENCODED write only when no rank is still
\* executing a collaborator call and every call of the pipeline returned
\* success.
C1_EncodedAfterSuccess ==
  \A r \in Ranks :
    (pc[r] \in {"en_encoded", "rb_encoded"} /\ sub[r] = "wait") =>
      /\ \A q \in Ranks : ~Executing(q)
      /\ \A c \in Calls : trace[r][c] # "fail"

\* C1, third part: after a crash in the window the files hold CORRUPT and the
\* next Read returns CORRUPT.
C1_CrashReadsCorrupt ==
  crashWin =>
    /\ \A g \in Leaders : file[g] = ER_STATE_CORRUPT
    /\ \A r \in Ranks : (pc[r] = "rb_read" /\ sub[r] = "done") => state[r] = ER_STATE_CORRUPT

\* C1: in ENCODE and REBUILD the CORRUPT write has completed in every storage
\* group before any rank starts a codec or shuffle call, the ENCODED write
\* starts only after all those calls have returned success, and a crash
\* between the two writes is read back as CORRUPT.
C1_Ordering ==
  /\ C1_CorruptBeforeCalls
  /\ C1_EncodedAfterSuccess
  /\ C1_CrashReadsCorrupt

\* C2: Read returns, on every rank, the value in the state file of the
\* lowest-ranked leader whose file holds CORRUPT or ENCODED, and NULL when no
\* leader holds one; a missing file counts as NULL.  (Checked under SpecRead.)
C2_ReadReconciles ==
  \A r \in Ranks : (pc[r] = "rb_read" /\ sub[r] = "done") => state[r] = Reconciled(file)

\* the two lowest leaders hold nothing or NULL, a third holds a value, and a
\* rank has finished Read
C2_Witness ==
  /\ \E g, h \in Leaders :
       /\ g < h
       /\ file[g] \in {ABSENT, ER_STATE_NULL}
       /\ file[h] = ER_STATE_ENCODED
       /\ \E k \in Leaders : h < k /\ file[k] = ER_STATE_CORRUPT
  /\ \A r \in Ranks : sub[r] = "done" /\ state[r] = ER_STATE_ENCODED

\* C3: when ER_Dispatch of an ENCODE set that ran er_encode returns, a state
\* file holds ENCODED only if redset_apply and shuffile_create both returned
\* success; if either failed the dispatch returns ER_FAILURE and every state
\* file is left at CORRUPT.
C3_EncodedOnlyOnSuccess ==
  \A r \in Ranks :
    (Returning(r, ER_DIRECTION_ENCODE) /\ CurOp(r).scheme) =>
      /\ (\E g \in Leaders : file[g] = ER_STATE_ENCODED) =>
           trace[r]["apply"] = "ok" /\ trace[r]["create"] = "ok"
      /\ (trace[r]["apply"] = "fail" \/ trace[r]["create"] = "fail") =>
           /\ rc[r] = ER_FAILURE
           /\ \A g \in Leaders : file[g] = ER_STATE_CORRUPT

\* an ENCODE dispatch returns after apply succeeded and shuffile_create failed,
\* over files that held ENCODED before
C3_Witness ==
  \E r \in Ranks :
    /\ Returning(r, ER_DIRECTION_ENCODE)
    /\ trace[r]["apply"] = "ok"
    /\ trace[r]["create"] = "fail"
    /\ rc[r] = ER_FAILURE
    /\ Cardinality(Leaders) > 1

\* C4: ER_Dispatch of a REBUILD set whose reconciled state is not ENCODED
\* returns ER_FAILURE on every rank, having made no state-file write or
\* unlink and no collaborator call.
C4_RebuildRefused ==
  \A r \in Ranks :
    (Returning(r, ER_DIRECTION_REBUILD) /\ state[r] # ER_STATE_ENCODED) =>
      /\ rc[r] = ER_FAILURE
      /\ fileops[r] = 0
      /\ trace[r] = NoTrace

\* a REBUILD dispatch is refused on a leader whose own file holds ENCODED
\* while a lower-ranked leader holds CORRUPT
C4_Witness ==
  \E r \in Leaders :
    /\ Returning(r, ER_DIRECTION_REBUILD)
    /\ state[r] = ER_STATE_CORRUPT
    /\ file[r] = ER_STATE_ENCODED
    /\ rc[r] = ER_FAILURE


\* C5: in every pipeline, when a collaborator call made during the dispatch
\* returned non-success, ER_Dispatch returns ER_FAILURE and every state file
\* is left at CORRUPT.
C5_FailureLeavesCorrupt ==
  \A r \in Ranks :
    (pc[r] = "ret" /\ \E c \in Calls : trace[r][c] = "fail") =>
      /\ rc[r] = ER_FAILURE
      /\ \A g \in Leaders : file[g] = ER_STATE_CORRUPT

\* C6 as stated: a REBUILD dispatch on reconciled state CORRUPT in which
\* neither shuffile_migrate nor redset_recover fails returns ER_SUCCESS and
\* leaves every state file at ENCODED.
C6_RebuildRecoversCorrupt ==
  \A r \in Ranks :
    ( /\ Returning(r, ER_DIRECTION_REBUILD)
      /\ state[r] = ER_STATE_CORRUPT
      /\ trace[r]["migrate"] # "fail"
      /\ trace[r]["recover"] # "fail" ) =>
      /\ rc[r] = ER_SUCCESS
      /\ \A g \in Leaders : file[g] = ER_STATE_ENCODED

\* C6 as amended: a REBUILD dispatch on reconciled state CORRUPT returns
\* ER_FAILURE without calling shuffile_migrate or redset_recover, and the
\* state files still reconcile to CORRUPT when it returns.
C6_RebuildKeepsCorrupt ==
  \A r \in Ranks :
    (Returning(r, ER_DIRECTION_REBUILD) /\ state[r] = ER_STATE_CORRUPT) =>
      /\ rc[r] = ER_FAILURE
      /\ trace[r]["migrate"] = "none"
      /\ trace[r]["recover"] = "none"
      /\ Reconciled(file) = ER_STATE_CORRUPT

\* a REBUILD dispatch returns on state CORRUPT that a failed ENCODE dispatch
\* of the same job left behind
C6_Witness ==
  \E r \in Ranks :
    /\ Returning(r, ER_DIRECTION_REBUILD)
    /\ state[r] = ER_STATE_CORRUPT
    /\ prev[r].dir = ER_DIRECTION_ENCODE
    /\ prev[r].ret = ER_FAILURE
    /\ \A g \in Leaders : file[g] = ER_STATE_CORRUPT

\* C7: when an ENCODE or REBUILD dispatch returns ER_SUCCESS (and no rank has
\* started a later dispatch) every state file holds ENCODED and reconciles to
\* ENCODED; the Read of a REBUILD dispatch that follows a successful ENCODE
\* or REBUILD returns ENCODED.
C7_SuccessMeansEncoded ==
  \A r \in Ranks :
    /\ ( /\ pc[r] = "ret"
         /\ CurDir(r) \in {ER_DIRECTION_ENCODE, ER_DIRECTION_REBUILD}
         /\ rc[r] = ER_SUCCESS
         /\ NoLaterDispatch(r) ) =>
         /\ \A g \in Leaders : file[g] = ER_STATE_ENCODED
         /\ Reconciled(file) = ER_STATE_ENCODED
    /\ ( /\ pc[r] = "rb_read"
         /\ sub[r] = "done"
         /\ prev[r].dir \in {ER_DIRECTION_ENCODE, ER_DIRECTION_REBUILD}
         /\ prev[r].ret = ER_SUCCESS ) =>
         state[r] = ER_STATE_ENCODED

\* a REBUILD dispatch returns success after a successful ENCODE dispatch,
\* with more than one storage group
C7_Witness ==
  \E r \in Ranks :
    /\ Returning(r, ER_DIRECTION_REBUILD)
    /\ rc[r] = ER_SUCCESS
    /\ prev[r].dir = ER_DIRECTION_ENCODE
    /\ prev[r].ret = ER_SUCCESS
    /\ NoLaterDispatch(r)
    /\ Cardinality(Leaders) > 1

\* every rank has returned from a REMOVE dispatch that followed a successful
\* ENCODE dispatch, and no rank has dispatched again
RoundTripDone ==
  \A r \in Ranks :
    /\ pc[r] = "idle"
    /\ idx[r] = Len(ops)
    /\ prev[r].dir = ER_DIRECTION_REMOVE
    /\ prev[r].pdir = ER_DIRECTION_ENCODE
    /\ prev[r].pret = ER_SUCCESS

\* C8: after a successful ENCODE and a REMOVE dispatch that has returned on
\* every rank, no storage group holds a state file (the files reconcile to
\* NULL) and every rank has called shuffile_remove and redset_unapply; the
\* Read of a REBUILD dispatch that follows a REMOVE returns NULL.
C8_RoundTrip ==
  /\ RoundTripDone =>
       /\ \A g \in Leaders : file[g] = ABSENT
       /\ Reconciled(file) = ER_STATE_NULL
       /\ \A r \in Ranks : trace[r]["remove"] # "none" /\ trace[r]["unapply"] # "none"
  /\ \A r \in Ranks :
       (pc[r] = "rb_read" /\ sub[r] = "done" /\ prev[r].dir = ER_DIRECTION_REMOVE) =>
         state[r] = ER_STATE_NULL

C8_Witness == RoundTripDone /\ Cardinality(Leaders) = 2

\* C9: when a rank has returned from er_state_write, every leader has already
\* made that write (the writes a rank has returned from are a prefix of the
\* writes of every group), and while no later write or unlink has happened
\* the files reconcile to the state written.
C9_WriteBarrier ==
  \A r \in Ranks :
    /\ \A g \in Leaders : IsPrefix(wret[r], written[g])
    /\ ( /\ wret[r] # <<>>
         /\ \A g \in Leaders : Len(written[g]) = Len(wret[r]) /\ file[g] # ABSENT ) =>
         /\ \A g \in Leaders : file[g] = Last(wret[r])
         /\ Reconciled(file) = Last(wret[r])

\* a rank has returned from a write of ENCODED while the leader of another
\* group is still inside the barrier of that write
C9_Witness ==
  \E r \in Ranks, q \in Leaders :
    /\ store[r] # q
    /\ wret[r] # <<>> /\ Last(wret[r]) = ER_STATE_ENCODED
    /\ pc[q] \in WriteSites /\ sub[q] = "wait"
    /\ Len(wret[q]) < Len(wret[r])

\* C10: in every pipeline, REMOVE included, while a rank is executing a
\* collaborator call every storage group's state file holds CORRUPT.
C10_CorruptWhileExecuting ==
  (\E r \in Ranks : Executing(r)) => \A g \in Leaders : file[g] = ER_STATE_CORRUPT

\* every rank that is inside ER_Dispatch eventually returns from it
AllReturn == \A r \in Ranks : (pc[r] # "idle") ~> (pc[r] = "idle")

\* the result rank q got from dispatch number k + 1, if q still holds it
ResultOf(q, k) ==
  IF idx[q] = k /\ pc[q] = "ret" THEN {rc[q]}
  ELSE IF idx[q] = k + 1 THEN {prev[q].ret}
  ELSE IF idx[q] = k + 2 THEN {prev[q].pret}
  ELSE {}

\* the ranks return the same result from the same dispatch
SameResult ==
  \A r, q \in Ranks : pc[r] = "ret" => ResultOf(q, idx[r]) \subseteq {rc[r]}

\* a dispatch in which a collaborator call failed returns ER_FAILURE
FailureReturned ==
  \A r \in Ranks :
    (pc[r] = "ret" /\ \E c \in Calls : trace[r][c] = "fail") => rc[r] = ER_FAILURE

\* C11: when every rank dispatches the same sets and each collective
\* collaborator call returns one value on all ranks, every rank eventually
\* returns from ER_Dispatch, all ranks return the same result, and that
\* result is ER_FAILURE when a collaborator call failed.
C11_AllReturnSame == AllReturn /\ []SameResult /\ []FailureReturned

\* ER_Finalize called while a scheme or a set is live returns ER_FAILURE
C12_FinalizeRefuses ==
  (last.op = "ER_Finalize" /\ (KvSize(pre.schemes) > 0 \/ KvSize(pre.sets) > 0)) =>
    last.ret = ER_FAILURE

\* freeing a handle that was live at the refused ER_Finalize returns ER_SUCCESS
C12_FreeAfterRefusal ==
  (last.op \in {"ER_Free_Scheme", "ER_Free"} /\ last.owed) => last.ret = ER_SUCCESS

\* ER_Finalize called after every such handle was freed returns ER_SUCCESS,
\* shuffile_finalize and redset_finalize succeeding
C12_SecondFinalize ==
  (last.op = "ER_Finalize" /\ last.owed /\ last.lib) => last.ret = ER_SUCCESS

\* C12: ER_Finalize with a live scheme or set returns ER_FAILURE; the caller
\* can then free every live handle with ER_Free_Scheme / ER_Free, each
\* returning ER_SUCCESS, and a second ER_Finalize returns ER_SUCCESS.
C12_FinalizeThenFree ==
  /\ C12_FinalizeRefuses
  /\ C12_FreeAfterRefusal
  /\ C12_SecondFinalize

\* the pairs C13 says ER_Create_Scheme accepts
Accepted(D, E) == D >= 1 /\ (E = 0 \/ E = D \/ (E = 1 /\ D >= 2))

\* the variant C13 says an accepted pair gets
Variant(D, E) ==
  IF E = 0 THEN REDSET_COPY_SINGLE
  ELSE IF E = D THEN REDSET_COPY_PARTNER
  ELSE REDSET_COPY_XOR

\* redset_create succeeding, an accepted pair gets the next scheme id, bound
\* to the variant of the pair
C13_AcceptedPairs ==
  (last.op = "ER_Create_Scheme" /\ last.lib /\ Accepted(last.D, last.E)) =>
    /\ last.ret = pre.scheme_counter + 1
    /\ er_scheme_counter = last.ret
    /\ descs = pre.descs + 1
    /\ er_schemes.alloc =>
         /\ DOMAIN er_schemes.kv = DOMAIN pre.schemes.kv \cup {last.ret}
         /\ er_schemes.kv[last.ret].type = Variant(last.D, last.E)

\* a rejected pair changes neither registry nor counter and creates no
\* descriptor
C13_RejectedUnchanged ==
  (last.op = "ER_Create_Scheme" /\ ~Accepted(last.D, last.E)) =>
    /\ er_schemes = pre.schemes
    /\ er_scheme_counter = pre.scheme_counter
    /\ descs = pre.descs

\* a rejected pair returns -1
C13_RejectedReturn ==
  (last.op = "ER_Create_Scheme" /\ ~Accepted(last.D, last.E)) => last.ret = -1

\* C13: for every pair (D, E), redset_create succeeding, ER_Create_Scheme
\* returns a scheme id exactly when D >= 1 and (E = 0 or E = D or E = 1 with
\* D >= 2), with variant SINGLE, PARTNER, XOR in that order of tests; every
\* other pair returns -1, leaves registry and counter unchanged and creates
\* no descriptor.
C13_CreateScheme ==
  /\ C13_AcceptedPairs
  /\ C13_RejectedUnchanged
  /\ C13_RejectedReturn

\* the ids in q are at least 1 and each is greater than all before it
Increasing(q) ==
  \A i \in 1 .. Len(q) : q[i] >= 1 /\ \A j \in 1 .. (i - 1) : q[j] < q[i]

\* C14: over every sequence of API calls (failed calls, frees, ER_Finalize
\* followed by ER_Init included) the ids returned by successful
\* ER_Create_Scheme calls are at least 1 and strictly increasing, and so are
\* the ids returned by successful ER_Create calls; no id is returned twice.
C14_IdsIncrease ==
  /\ Increasing(scheme_ids)
  /\ Increasing(set_ids)
  /\ (last.op = "ER_Create_Scheme" /\ last.lib /\ EncodingType(last.D, last.E) # REDSET_COPY_NULL) =>
       scheme_ids # <<>> /\ last.ret = Last(scheme_ids)
  /\ (last.op = "ER_Create" /\ last.ret # -1 /\ last.name # "" /\ last.dir \in Directions) =>
       set_ids # <<>> /\ last.ret = Last(set_ids)

\* two schemes and two sets were created, and the first scheme is no longer
\* in the registry when the last id is returned
C14_Witness ==
  /\ Len(scheme_ids) = 2
  /\ Len(set_ids) = 2
  /\ KvSize(er_schemes) = 1
  /\ last.op = "ER_Create"
  /\ last.ret = 2

\* the last call was given a scheme id or a set id that was not in its
\* registry
MissingRef ==
  \/ last.op = "ER_Free_Scheme" /\ ~KvHas(pre.schemes, last.id)
  \/ /\ last.op = "ER_Create"
     /\ last.name # ""
     /\ last.dir = ER_DIRECTION_ENCODE
     /\ ~KvHas(pre.schemes, last.id)
  \/ last.op \in {"ER_Add", "ER_Dispatch", "ER_Free"} /\ ~KvHas(pre.sets, last.id)

\* the failure value of the last call: -1 where an id is returned
FailValue == IF last.op = "ER_Create" THEN -1 ELSE ER_FAILURE

RegistriesUnchanged == er_schemes = pre.schemes /\ er_sets = pre.sets

\* C15 as stated: ER_Free_Scheme, ER_Create for ENCODE, ER_Add, ER_Dispatch
\* and ER_Free, given an id that is not in the registry, return failure and
\* leave both registries unchanged.
C15_MissingFails ==
  MissingRef => last.ret = FailValue /\ RegistriesUnchanged

\* C15 as amended: ER_Free_Scheme, ER_Create for ENCODE, ER_Add and
\* ER_Dispatch, given an id that is not in the registry, return failure;
\* ER_Free returns ER_SUCCESS; all five leave both registries unchanged.
C15_MissingFailsButFree ==
  MissingRef =>
    /\ last.ret = IF last.op = "ER_Free" THEN ER_SUCCESS ELSE FailValue
    /\ RegistriesUnchanged

\* ER_Free was called with an id that is not in er_sets while a scheme and
\* another set are live
C15_Witness ==
  /\ last.op = "ER_Free"
  /\ MissingRef
  /\ KvSize(er_sets) > 0
  /\ KvSize(er_schemes) > 0

\* the number of er_state_write calls rank r has made since the job started
WritesBegun(r) ==
  Len(wret[r]) + (IF pc[r] \in WriteSites /\ sub[r] = "wait" THEN 1 ELSE 0)

\* C16: only the rank with storage rank 0 writes, reads or unlinks the state
\* file of its group: a rank with non-zero storage rank makes no state-file
\* write or unlink and never holds a value read from a file, no file exists
\* but the leaders' files, and the file of a group has been written exactly
\* once for each er_state_write call its leader has made.
C16_LeaderOnly ==
  /\ \A r \in Ranks \ Leaders :
       /\ fileops[r] = 0
       /\ valid_rank[r] = NRanks
       /\ file[r] = ABSENT
       /\ written[r] = <<>>
  /\ \A g \in Leaders : Len(written[g]) = WritesBegun(g)

\* a rank with non-zero storage rank has returned from two er_state_write
\* calls and from the unlink of a REMOVE, in a group whose file was written
\* twice
C16_Witness ==
  \E r \in Ranks \ Leaders :
    /\ Len(wret[r]) >= 2
    /\ Len(written[store[r]]) = 2
    /\ pc[r] = "ret"
    /\ CurDir(r) = ER_DIRECTION_REMOVE

\* rank r has finished the Read of the REBUILD dispatch number k + 1 and
\* still holds what that dispatch left in its locals
ReadDone(r, k) ==
  \/ /\ idx[r] = k
     /\ pc[r] # "idle"
     /\ CurDir(r) = ER_DIRECTION_REBUILD
     /\ ~(pc[r] = "rb_read" /\ sub[r] # "done")
  \/ /\ idx[r] = k + 1
     /\ pc[r] = "idle"
     /\ prev[r].dir = ER_DIRECTION_REBUILD

\* rank r returned from the REBUILD dispatch at the state check
Refused(r) == pc[r] \in {"ret", "idle"} /\ trace[r]["migrate"] = "none"

\* rank r went on to the CORRUPT write of the REBUILD dispatch
Proceeded(r) ==
  \/ pc[r] \in {"rb_corrupt", "rb_migrate", "rb_recover", "rb_encoded"}
  \/ trace[r]["migrate"] # "none"

\* C17: whatever the state files hold, er_state_read returns the same value
\* on every rank; so in a REBUILD dispatch either every rank returns
\* ER_FAILURE at the state check (the value is not ENCODED) or every rank goes
\* on to the CORRUPT write, and no rank is at that write or in its barrier
\* while another rank has returned at the state test.
C17_ReadAgrees ==
  \A k \in 0 .. (MaxDispatch - 1) :
    \A r, q \in Ranks :
      (ReadDone(r, k) /\ ReadDone(q, k)) =>
        /\ state[r] = state[q]
        /\ Refused(r) => ~Proceeded(q)
        /\ pc[r] \in {"ret", "idle"} => (Refused(r) <=> state[r] # ER_STATE_ENCODED)

\* a non-leader has returned at the state check while a leader whose own
\* file holds ENCODED has finished the same Read with the value CORRUPT of a
\* lower-ranked leader
C17_Witness ==
  \E r \in Ranks \ Leaders, q \in Leaders :
    /\ ReadDone(r, idx[q])
    /\ ReadDone(q, idx[q])
    /\ idx[r] = idx[q] + 1
    /\ file[q] = ER_STATE_ENCODED
    /\ state[q] = ER_STATE_CORRUPT
    /\ pc[q] = "rb_read"

\* the last call was ER_Dispatch on an ENCODE set whose scheme id is not in
\* er_schemes
SchemeGone ==
  /\ last.op = "ER_Dispatch"
  /\ KvHas(er_sets, last.id)
  /\ er_sets.kv[last.id].direction = ER_DIRECTION_ENCODE
  /\ ~KvHas(er_schemes, er_sets.kv[last.id].scheme)

\* C18: ER_Dispatch of an ENCODE set whose scheme was freed after ER_Create
\* returns ER_FAILURE without calling er_encode, the only place where an
\* ENCODE dispatch writes the state file and calls redset_apply and
\* shuffile_create.
C18_SchemeGoneAborts ==
  SchemeGone => last.ret = ER_FAILURE /\ last.entered = "none"

\* the set was created on a scheme that ER_Create_Scheme had returned, files
\* were added, and the scheme is gone at the dispatch
C18_Witness ==
  /\ SchemeGone
  /\ er_schemes.alloc
  /\ \E i \in 1 .. Len(scheme_ids) : scheme_ids[i] = er_sets.kv[last.id].scheme
  /\ last.num_files > 0

\* the pipeline side of C18: a dispatch that does not call er_encode makes no
\* state-file write and no collaborator call
SchemeGoneNoEffect ==
  \A r \in Ranks :
    (Returning(r, ER_DIRECTION_ENCODE) /\ ~CurOp(r).scheme) =>
      /\ rc[r] = ER_FAILURE
      /\ fileops[r] = 0
      /\ trace[r] = NoTrace

\* the elements of sequence q
Range(q) == {q[i] : i \in 1 .. Len(q)}

\* the last call was ER_Dispatch and it handed a file list to er_encode
HandedFiles == last.op = "ER_Dispatch" /\ last.entered = "er_encode"

\* ER_Add with an empty path returns ER_FAILURE and changes no set
C19_EmptyPathRejected ==
  (last.op = "ER_Add" /\ last.path = "") =>
    last.ret = ER_FAILURE /\ er_sets = pre.sets

ApplyFailed(r) == Returning(r, ER_DIRECTION_ENCODE) /\ trace[r]["apply"] = "fail"

\* C20 as stated: when redset_apply fails in an ENCODE dispatch,
\* shuffile_create is not called, ER_Dispatch returns ER_FAILURE and every
\* state file holds CORRUPT.
C20_ApplyFailureStops ==
  \A r \in Ranks :
    ApplyFailed(r) =>
      /\ trace[r]["create"] = "none"
      /\ rc[r] = ER_FAILURE
      /\ \A g \in Leaders : file[g] = ER_STATE_CORRUPT

\* C20 as amended: when redset_apply fails in an ENCODE dispatch,
\* shuffile_create is still called, the ENCODED write is not made whatever
\* shuffile_create returns, ER_Dispatch returns ER_FAILURE and every state
\* file holds CORRUPT.
C20_ApplyFailureGoesOn ==
  \A r \in Ranks :
    ApplyFailed(r) =>
      /\ trace[r]["create"] \in {"ok", "fail"}
      /\ fileops[r] <= 1
      /\ rc[r] = ER_FAILURE
      /\ \A g \in Leaders : file[g] = ER_STATE_CORRUPT

\* an ENCODE dispatch returns after redset_apply failed and shuffile_create
\* succeeded, over files that held ENCODED before
C20_Witness ==
  \E r \in Ranks :
    /\ ApplyFailed(r)
    /\ trace[r]["create"] = "ok"
    /\ prev[r].dir = ER_DIRECTION_ENCODE
    /\ prev[r].ret = ER_SUCCESS

\* this step appends a write of ENCODED to the file of group g
WritesEncodedTo(g) ==
  /\ Len(written'[g]) = Len(written[g]) + 1
  /\ Last(written'[g]) = ER_STATE_ENCODED

\* this step unlinks the file of group g
UnlinksFileOf(g) ==
  /\ pc[g] = "rm_unlink"
  /\ fileops'[g] = fileops[g] + 1

\* what C21 requires of one step, for the file of group g
ThroughCorrupt(g) ==
  /\ file'[g] # file[g] => (file[g] = ER_STATE_CORRUPT \/ file'[g] = ER_STATE_CORRUPT)
  /\ WritesEncodedTo(g) => file[g] = ER_STATE_CORRUPT
  /\ UnlinksFileOf(g) => file[g] = ER_STATE_CORRUPT

\* C21: per storage group every change of the state file passes through
\* CORRUPT: over ENCODE, REBUILD and REMOVE dispatches, with or without
\* collaborator failures and crashes, a file never goes from absent or NULL
\* straight to ENCODED nor from ENCODED straight to absent, and the file
\* holds CORRUPT whenever ENCODED is written or the file is unlinked.
C21_ThroughCorrupt == [][\A g \in Ranks : ThroughCorrupt(g)]_vars

\* the file of a group was written CORRUPT and ENCODED by a successful
\* ENCODE, then CORRUPT by a REMOVE, and has been unlinked, in a job with
\* more than one storage group
C21_Witness ==
  \E g, h \in Leaders :
    /\ written[g] = <<ER_STATE_CORRUPT, ER_STATE_ENCODED, ER_STATE_CORRUPT>>
    /\ file[g] = ABSENT
    /\ fileops[g] = 2
    /\ g # h

====
